---- MODULE Spec2Model ----
(***************************************************************************)
(* Model of the bot component of alfred (src/bot/bot.go): the subscription *)
(* cache, HandleMessage's classification and dispatch, the statistics map  *)
(* and its flush, and the maintenance loops started by Start.               *)
(*                                                                         *)
(* Texts and channel ids are sequences of one-character strings, so that   *)
(* strings.ToLower, strings.HasPrefix, strings.Contains and the regular    *)
(* expressions are computed character by character.                        *)
(***************************************************************************)
EXTENDS Integers, Sequences, FiniteSets, TLC

(***************************************************************************)
(* Bounds of the model.                                                    *)
(***************************************************************************)
MaxEvents == 2      \* HandleMessage calls in one behaviour
MaxChanges == 1     \* configuration-change notifications put on the queue
MaxTicks == 2       \* ticks of the one-minute ticker in one behaviour
MaxReplies == 1     \* replies PopWorkReply returns in one behaviour

(***************************************************************************)
(* strings: ToLower, HasPrefix, Contains                                   *)
(***************************************************************************)
UpperLetters == <<"A","B","C","D","E","F","G","H","I","J","K","L","M",
                  "N","O","P","Q","R","S","T","U","V","W","X","Y","Z">>
LowerLetters == <<"a","b","c","d","e","f","g","h","i","j","k","l","m",
                  "n","o","p","q","r","s","t","u","v","w","x","y","z">>
Digits == {"0","1","2","3","4","5","6","7","8","9"}

ToLowerCh(c) ==
  IF \E i \in DOMAIN UpperLetters : UpperLetters[i] = c
    THEN LowerLetters[CHOOSE i \in DOMAIN UpperLetters : UpperLetters[i] = c]
    ELSE c

ToLower(s) == [i \in 1..Len(s) |-> ToLowerCh(s[i])]

HasPrefix(s, p) == Len(s) >= Len(p) /\ SubSeq(s, 1, Len(p)) = p

Contains(s, p) ==
  \E i \in 1..(Len(s) - Len(p) + 1) : SubSeq(s, i, i + Len(p) - 1) = p

(***************************************************************************)
(* regexp: \b, \d, [a-fA-F\d], and the four patterns of lines 88-93        *)
(***************************************************************************)
IsDigit(c) == c \in Digits

IsHexCh(c) == IsDigit(c) \/ c \in {"a","b","c","d","e","f","A","B","C","D","E","F"}

IsWordCh(c) ==
  \/ IsDigit(c)
  \/ c = "_"
  \/ \E i \in DOMAIN UpperLetters : c = UpperLetters[i] \/ c = LowerLetters[i]

\* is position i of s (1..Len(s)) a word character; outside s there is none
WordAt(s, i) == i >= 1 /\ i <= Len(s) /\ IsWordCh(s[i])

\* \b between s[i] and s[i+1], for i in 0..Len(s)
WordBoundary(s, i) == WordAt(s, i) # WordAt(s, i + 1)

\* \b[a-fA-F\d]{n}\b
HexRegMatch(s, n) ==
  \E i \in 1..(Len(s) - n + 1) :
    /\ \A k \in i..(i + n - 1) : IsHexCh(s[k])
    /\ WordBoundary(s, i - 1)
    /\ WordBoundary(s, i + n - 1)

\* \d{1,3} starting at i and ending at j
DigitGroup(s, i, j) ==
  /\ j >= i /\ j <= i + 2 /\ i >= 1 /\ j <= Len(s)
  /\ \A k \in i..j : IsDigit(s[k])

IsDot(s, i) == i >= 1 /\ i <= Len(s) /\ s[i] = "."

\* \d{1,3}\. starting at i: the positions right after the dot
GroupDotEnds(s, i) == {j \in (i + 2)..(i + 4) : DigitGroup(s, i, j - 2) /\ IsDot(s, j - 1)}

\* \b\d{1,3}\.\d{1,3}\.\d{1,3}\.\d{1,3}\b
ipRegMatch(s) ==
  \E i \in 1..Len(s) :
    /\ WordBoundary(s, i - 1)
    /\ \E i2 \in GroupDotEnds(s, i) : \E i3 \in GroupDotEnds(s, i2) :
         \E i4 \in GroupDotEnds(s, i3) : \E e4 \in i4..(i4 + 2) :
           DigitGroup(s, i4, e4) /\ WordBoundary(s, e4)

md5RegMatch(s) == HexRegMatch(s, 32)
sha1RegMatch(s) == HexRegMatch(s, 40)
sha256RegMatch(s) == HexRegMatch(s, 64)

(***************************************************************************)
(* The repository's teams and the events the ingress delivers.             *)
(***************************************************************************)
Teams == {"T1", "T2"}                   \* external ids of the teams of the repository
NoTeam == ""                            \* msg.S("team_id") of an event without one

TeamID(t) == IF t = "T1" THEN "id1" ELSE "id2"          \* domain.Team.ID
BotUserID(t) == IF t = "T1" THEN "B1" ELSE "B2"         \* domain.Team.BotUserID
BotToken(t) == IF t = "T1" THEN "tok1" ELSE "tok2"      \* domain.Team.BotToken

Hostname == "host"                      \* util.Hostname

Str(a, n) == [i \in 1..n |-> a]         \* n times the character a

txtEmpty == << >>
txtPlain == <<"h","i">>
txtJoin == <<"j","o","i","n"," ","#","g">>
txtJoinUpper == <<"J","O","I","N"," ","#","g">>
txtVerboseMd5 == <<"v","e","r","b","o","s","e"," ">> \o Str("a", 31) \o <<"F">>
txtConfig == <<"c","o","n","f","i","g">>
txtConfigUpper == <<"C","o","n","f","i","g">>
txtQuestion == <<"?">>
txtHelp == <<"h","e","l","p">>
txtVtIp == <<"v","t"," ","1","0",".","0",".","0",".","1">>
txtXfe == <<"x","f","e"," ","x">>
txtLink == <<"<","H","T","T","P",":","/","/","x",">">>
txtIp == <<"9","9","9",".","9","9","9",".","9","9","9",".","9","9","9">>
txtSha1 == <<"s"," ">> \o Str("0", 39) \o <<"c",".">>
txtSha256 == Str("D", 64)
txtHex33 == Str("a", 33)                \* 33 hex characters: no digest

Texts == {txtEmpty, txtPlain, txtJoin, txtJoinUpper, txtVerboseMd5, txtConfig,
          txtConfigUpper, txtQuestion, txtHelp, txtVtIp, txtXfe, txtLink, txtIp,
          txtSha1, txtSha256, txtHex33}

chanNone == << >>
chanDM == <<"D","1">>
chanPublic == <<"C","1">>
Channels == {chanNone, chanDM, chanPublic}

Types == {"message", "team_join"}
Subtypes == {"", "file_share", "message_changed"}
Users == {"B1", "U1"}                   \* B1 is the bot of T1 and a plain user of T2

\* msg.R("event"): the nested event objects the ingress delivers
MessageEvents == [type : {"message"}, user : Users, subtype : Subtypes,
                  channel : Channels, text : Texts]
OtherEvents == [type : Types \ {"message"}, user : Users, subtype : {""},
                channel : {chanDM, chanPublic}, text : {txtPlain, txtJoin, txtLink}]
Events == MessageEvents \cup OtherEvents

\* one event of each kind, for the runs that interleave the tasks
evPlain == [type |-> "message", user |-> "U1", subtype |-> "", channel |-> chanPublic,
            text |-> txtPlain]
evLink == [evPlain EXCEPT !.text = txtLink]
evJoin == [evPlain EXCEPT !.channel = chanDM, !.text = txtJoin]
evBot == [evPlain EXCEPT !.user = "B1"]
evOther == [evPlain EXCEPT !.type = "team_join"]
CoreEvents == {evPlain, evLink, evJoin, evBot, evOther}

(***************************************************************************)
(* HandleMessage, lines 121-163: the decisions taken on one event.         *)
(***************************************************************************)
pJoin == <<"j","o","i","n"," ">>
pVerbose == <<"v","e","r","b","o","s","e"," ">>
pHelp == <<"h","e","l","p">>
pVt == <<"v","t"," ">>
pXfe == <<"x","f","e"," ">>
pHttp == <<"<","h","t","t","p">>

\* channel != "" && channel[0] == 'D'
IsDirect(channel) == channel # << >> /\ channel[1] = "D"

\* the command forms of lines 127-129, on ltext except for "?"
CommandForm(text) ==
  LET ltext == ToLower(text)
  IN  \/ HasPrefix(ltext, pJoin) \/ HasPrefix(ltext, pVerbose)
      \/ ltext = txtConfig
      \/ text = txtQuestion \/ HasPrefix(ltext, pHelp)
      \/ HasPrefix(ltext, pVt) \/ HasPrefix(ltext, pXfe)

\* the negated condition of lines 126-129
IsInternalCommand(ev) ==
  ev.subtype = "" /\ IsDirect(ev.channel) /\ CommandForm(ev.text)

\* line 131
HasEvidence(text) ==
  \/ Contains(ToLower(text), pHttp)
  \/ ipRegMatch(text) \/ md5RegMatch(text) \/ sha1RegMatch(text) \/ sha256RegMatch(text)

\* ShouldPush without the test of lines 126-129: evidence wins over a command
ShouldPush_NoPrecedence(ev) ==
  IF ev.subtype = "file_share" THEN TRUE
  ELSE IF ev.subtype = "" THEN HasEvidence(ev.text)
  ELSE FALSE

\* ShouldPush without lines 133-135: a file share is pushed only for its text
ShouldPush_NoFileShare(ev) ==
  IF IsInternalCommand(ev) THEN FALSE
  ELSE IF ev.subtype = "" THEN HasEvidence(ev.text)
  ELSE FALSE

\* the value of push at line 138
ShouldPush(ev) ==
  IF IsInternalCommand(ev) THEN FALSE
  ELSE IF ev.subtype = "file_share" THEN TRUE
  ELSE IF ev.subtype = "" THEN HasEvidence(ev.text)
  ELSE FALSE

\* lines 149-164: the handlers called, in order, on an event that is not pushed
CommandCalls(ev) ==
  LET text == ev.text
  IN  IF ~IsDirect(ev.channel) THEN << >>
      ELSE IF HasPrefix(text, pJoin) THEN <<"joinChannels">>
      ELSE IF HasPrefix(text, pVerbose) THEN <<"handleVerbose">>
      ELSE IF text = txtConfig THEN <<"handleConfig">>
      ELSE IF text = txtQuestion \/ HasPrefix(text, pHelp) THEN <<"showHelp">>
      ELSE IF HasPrefix(text, pVt) THEN <<"handleVT">>
      ELSE IF HasPrefix(text, pXfe) THEN <<"handleXFE">>
      ELSE << >>

\* WorkRequest without the ReplyQueue of line 143
WorkRequest_NoReplyQueue(team, sub, ev) ==
  [Token |-> sub.token,
   ReplyQueue |-> "",
   Context |-> [Team |-> team, User |-> ev.user, Type |-> ev.type,
                Channel |-> ev.channel, OriginalUser |-> ev.user]]

\* lines 140-143: the work request built for a pushed event
WorkRequest(team, sub, ev) ==
  [Token |-> sub.token,
   ReplyQueue |-> Hostname,
   Context |-> [Team |-> team, User |-> ev.user, Type |-> ev.type,
                Channel |-> ev.channel, OriginalUser |-> ev.user]]

\* the events of the ingress that line 138 pushes, computed once
PushEvents == {ev \in {e : e \in Events} : ShouldPush(ev)}

\* Increment with line 172 inside the else of line 168: a new entry stays at zero
Increment_SkipFirst(st, team, sub) ==
  IF team \in DOMAIN st
    THEN [st EXCEPT ![team].Messages = @ + 1]
    ELSE [t \in DOMAIN st \cup {team} |->
            IF t = team THEN [Team |-> sub.id, Messages |-> 0] ELSE st[t]]

\* lines 167-172: stats[team] created at zero when missing, then Messages++
Increment(st, team, sub) ==
  LET cur == IF team \in DOMAIN st THEN st[team] ELSE [Team |-> sub.id, Messages |-> 0]
  IN  [t \in DOMAIN st \cup {team} |->
         IF t = team THEN [cur EXCEPT !.Messages = cur.Messages + 1] ELSE st[t]]

(***************************************************************************)
(* State                                                                   *)
(***************************************************************************)
Handlers == {"h1", "h2"}                \* concurrent callers of HandleMessage

VARIABLES
  subscriptions,  \* b.subscriptions: external team id -> subscription
  stats,          \* b.stats: external team id -> domain.Statistics
  mu,             \* the task holding b.mu for writing, or "free"
  smu,            \* the task holding b.smu, or "free"
  hs,             \* per HandleMessage task: position, team, sub
  main,           \* position of Start
  loadLeft,       \* loadSubscriptions: the teams still to range over
  storeLeft,      \* storeStatistics: the keys of b.stats still to range over
  mon,            \* position of monitorChanges
  stopCh,         \* len(b.stop), a channel of capacity 1
  confQ,          \* the queue PopConf reads
  workQ,          \* the queue PushWork appends to
  persisted,      \* repository: sum of the Messages stored by UpdateStatistics, per team
  incs,           \* history: number of Messages++ per team
  last,           \* history: the latest HandleMessage call that ended, its PushWork
                  \*          calls and its command handler calls
  store,          \* history: the latest storeStatistics call: the keys of b.stats, the
                  \*          keys UpdateStatistics was called on, those it failed on, and
                  \*          whether the heartbeat of its tick returned nil
  nTicks,         \* history: ticks of the ticker
  nEvents,        \* history: HandleMessage calls begun
  nChanges,       \* history: notifications put on confQ
  rep,            \* monitorReplies: "off", "run" or "quit"
  nReplies,       \* history: replies handed to handleReply
  bulk            \* history: the loadSubscriptions call: how far it got and, until it
                  \*          returns, the keys of b.subscriptions when it took the lock,
                  \*          the teams whose ChannelsAndGroups returned nil and those
                  \*          where it failed

vars == <<subscriptions, stats, mu, smu, hs, main, loadLeft, storeLeft, mon, stopCh,
          confQ, workQ, persisted, incs, last, store, nTicks, nEvents, nChanges,
          rep, nReplies, bulk>>

NoSub == [id |-> "", bot |-> "", token |-> "", pre |-> FALSE]
NoEvent == [type |-> "", user |-> "", subtype |-> "", channel |-> << >>, text |-> << >>]
Idle == [pc |-> "idle", team |-> NoTeam, sub |-> NoSub, hit |-> FALSE]

\* &subscription{team: t, configuration: ..., s: ...} as read from the repository;
\* pre (history) is set once an invalidation of the team completes after the read
NewSub(t) == [id |-> TeamID(t), bot |-> BotUserID(t), token |-> BotToken(t), pre |-> FALSE]

\* b.subscriptions[team] = teamSub
MapPut(m, k, v) == [x \in DOMAIN m \cup {k} |-> IF x = k THEN v ELSE m[x]]

\* delete(b.subscriptions, team)
MapDelete(m, k) == [x \in DOMAIN m \ {k} |-> m[x]]

EmptyMap == [x \in {} |-> 0]

\* no loadSubscriptions call yet
NoBulk == [state |-> "none", before |-> {}, ok |-> {}, failed |-> {}]

Init ==
  /\ subscriptions = EmptyMap
  /\ stats = EmptyMap
  /\ mu = "free"
  /\ smu = "free"
  /\ hs = [h \in Handlers |-> Idle]
  /\ main = "new"
  /\ loadLeft = << >>
  /\ storeLeft = {}
  /\ mon = "off"
  /\ stopCh = 0
  /\ confQ = << >>
  /\ workQ = << >>
  /\ persisted = [t \in Teams |-> 0]
  /\ incs = [t \in Teams |-> 0]
  /\ last = [team |-> NoTeam, ev |-> NoEvent, outcome |-> "", pushes |-> << >>, calls |-> << >>]
  /\ store = [keys |-> {}, tried |-> {}, failed |-> {}, hb |-> TRUE]
  /\ nTicks = 0
  /\ nEvents = 0
  /\ nChanges = 0
  /\ rep = "off"
  /\ nReplies = 0
  /\ bulk = NoBulk

\* what a HandleMessage call that ends leaves in last
Ended(team, ev, outcome, pushes, calls) ==
  [team |-> team, ev |-> ev, outcome |-> outcome, pushes |-> pushes, calls |-> calls]

(***************************************************************************)
(* HandleMessage                                                           *)
(***************************************************************************)
\* relevantTeam: b.subscriptions[team] read under the read lock, nil when missing
relevantTeam(team) == IF team \in DOMAIN subscriptions THEN subscriptions[team] ELSE NoSub

\* HasTeam without the test of line 99
HasTeam_Always(team) == TRUE

\* lines 98-103: the message names its team
HasTeam(team) == team # NoTeam

\* lines 95-111 up to the call of loadSubscription: the team of the message,
\* relevantTeam(team) and the test of its result
HandleMessageBegin(h, team) ==
  /\ hs[h].pc = "idle"
  /\ nEvents < MaxEvents
  /\ nEvents' = nEvents + 1
  /\ IF ~HasTeam(team)
       THEN /\ last' = Ended(team, NoEvent, "noteam", << >>, << >>)
            /\ hs' = hs
       ELSE /\ mu = "free"
            /\ last' = last
            /\ hs' = [hs EXCEPT ![h] =
                 IF relevantTeam(team) # NoSub
                   THEN [pc |-> "event", team |-> team, sub |-> relevantTeam(team), hit |-> TRUE]
                   ELSE [pc |-> "loadTeam", team |-> team, sub |-> NoSub, hit |-> FALSE]]
  /\ UNCHANGED <<subscriptions, stats, mu, smu, main, loadLeft, storeLeft, mon, stopCh,
                 confQ, workQ, persisted, incs, store, nTicks, nChanges,
                 rep, nReplies, bulk>>

\* loadSubscription, lines 72-76: b.r.TeamByExternalID(team)
LoadTeam(h, ok) ==
  /\ hs[h].pc = "loadTeam"
  /\ IF ok
       THEN /\ hs' = [hs EXCEPT ![h].pc = "loadCfg", ![h].sub = NewSub(hs[h].team)]
            /\ last' = last
       ELSE /\ hs' = [hs EXCEPT ![h] = Idle]
            /\ last' = Ended(hs[h].team, NoEvent, "loadfail", << >>, << >>)
  /\ UNCHANGED <<subscriptions, stats, mu, smu, main, loadLeft, storeLeft, mon, stopCh,
                 confQ, workQ, persisted, incs, store, nTicks, nEvents, nChanges,
                 rep, nReplies, bulk>>

\* LoadCfg with the entry put in the map before the test of the error
LoadCfg_InstallFirst(h, ok) ==
  /\ hs[h].pc = "loadCfg"
  /\ mu = "free"
  /\ subscriptions' = MapPut(subscriptions, hs[h].team, hs[h].sub)
  /\ IF ok
       THEN /\ hs' = [hs EXCEPT ![h].pc = "event"]
            /\ last' = last
       ELSE /\ hs' = [hs EXCEPT ![h] = Idle]
            /\ last' = Ended(hs[h].team, NoEvent, "loadfail", << >>, << >>)
  /\ UNCHANGED <<stats, mu, smu, main, loadLeft, storeLeft, mon, stopCh,
                 confQ, workQ, persisted, incs, store, nTicks, nEvents, nChanges,
                 rep, nReplies, bulk>>

\* loadSubscription, lines 77-81: b.r.ChannelsAndGroups(t.ID)
LoadCfg(h, ok) ==
  /\ hs[h].pc = "loadCfg"
  /\ IF ok
       THEN /\ hs' = [hs EXCEPT ![h].pc = "install"]
            /\ last' = last
       ELSE /\ hs' = [hs EXCEPT ![h] = Idle]
            /\ last' = Ended(hs[h].team, NoEvent, "loadfail", << >>, << >>)
  /\ UNCHANGED <<subscriptions, stats, mu, smu, main, loadLeft, storeLeft, mon, stopCh,
                 confQ, workQ, persisted, incs, store, nTicks, nEvents, nChanges,
                 rep, nReplies, bulk>>

\* loadSubscription, lines 82-85: the entry is installed under the write lock
Install(h) ==
  /\ hs[h].pc = "install"
  /\ mu = "free"
  /\ subscriptions' = MapPut(subscriptions, hs[h].team, hs[h].sub)
  /\ hs' = [hs EXCEPT ![h].pc = "event"]
  /\ UNCHANGED <<stats, mu, smu, main, loadLeft, storeLeft, mon, stopCh,
                 confQ, workQ, persisted, incs, last, store, nTicks, nEvents, nChanges,
                 rep, nReplies, bulk>>

\* Ignored without the test of line 118
Ignored_NoBotTest(sub, ev) == ev.type # "message"

\* lines 113-120: the event is no message, or the bot user of the team sent it
Ignored(sub, ev) == ev.type # "message" \/ ev.user = sub.bot

\* Pushed with the request kept when PushWork returned an error
Pushed_KeepFailed(q, req, ok) == Append(q, req)

\* lines 144-146: the queue after b.q.PushWork(req) returned nil or an error
Pushed(q, req, ok) == IF ok THEN Append(q, req) ELSE q

\* lines 112-175 on the nested event ev; pushOk is the outcome of b.q.PushWork.
\* The command handler's calls and the locked Messages++ that follows are one step:
\* the handlers touch none of the state above.
HandleEvent(h, ev, pushOk) ==
  LET team == hs[h].team
      sub == hs[h].sub
  IN
  /\ hs[h].pc = "event"
  /\ hs' = [hs EXCEPT ![h] = Idle]
  /\ IF Ignored(sub, ev)
       THEN /\ last' = Ended(team, ev, "ignored", << >>, << >>)
            /\ UNCHANGED <<workQ, stats, incs>>
       ELSE IF ev \in PushEvents
         THEN /\ workQ' = Pushed(workQ, WorkRequest(team, sub, ev), pushOk)
              /\ last' = Ended(team, ev, IF pushOk THEN "pushed" ELSE "pushfail",
                              <<WorkRequest(team, sub, ev)>>, << >>)
              /\ UNCHANGED <<stats, incs>>
         ELSE /\ smu = "free"
              /\ stats' = Increment(stats, team, sub)
              /\ incs' = [incs EXCEPT ![team] = @ + 1]
              /\ last' = Ended(team, ev, "counted", << >>, CommandCalls(ev))
              /\ workQ' = workQ
  /\ UNCHANGED <<subscriptions, mu, smu, main, loadLeft, storeLeft, mon, stopCh,
                 confQ, persisted, store, nTicks, nEvents, nChanges,
                 rep, nReplies, bulk>>

(***************************************************************************)
(* Start, loadSubscriptions, storeStatistics, Stop                         *)
(***************************************************************************)
TeamList == <<"T1", "T2">>              \* the slice b.r.Teams() returns

\* StartHeartbeat with the go statements of lines 201-202 ahead of loadSubscriptions
StartHeartbeat_ListenersFirst(ok) ==
  /\ main = "new"
  /\ main' = IF ok THEN "load" ELSE "failed"
  /\ mon' = IF ok THEN "run" ELSE mon
  /\ rep' = IF ok THEN "run" ELSE rep
  /\ UNCHANGED <<subscriptions, stats, mu, smu, hs, loadLeft, storeLeft, stopCh,
                 confQ, workQ, persisted, incs, last, store, nTicks, nEvents, nChanges,
                 nReplies, bulk>>

\* lines 193-196: the first heartbeat
StartHeartbeat(ok) ==
  /\ main = "new"
  /\ main' = IF ok THEN "load" ELSE "failed"
  /\ UNCHANGED <<subscriptions, stats, mu, smu, hs, loadLeft, storeLeft, mon, stopCh,
                 confQ, workQ, persisted, incs, last, store, nTicks, nEvents, nChanges,
                 rep, nReplies, bulk>>

\* what a loadSubscriptions call that took the lock leaves in bulk
Listing(ok) ==
  [state |-> IF ok THEN "range" ELSE "error", before |-> DOMAIN subscriptions,
   ok |-> {}, failed |-> {}]

\* LoadSubscriptionsTeams without the deferred unlock of line 53
LoadSubscriptionsTeams_NoUnlock(ok) ==
  /\ main = "load"
  /\ mu = "free"
  /\ mu' = "main"
  /\ bulk' = Listing(ok)
  /\ IF ok
       THEN /\ loadLeft' = TeamList
            /\ main' = "range"
       ELSE /\ loadLeft' = loadLeft
            /\ main' = "failed"
  /\ UNCHANGED <<subscriptions, stats, smu, hs, storeLeft, mon, stopCh,
                 confQ, workQ, persisted, incs, last, store, nTicks, nEvents, nChanges,
                 rep, nReplies>>

\* lines 52-57: b.mu.Lock() and b.r.Teams(); an error unlocks and ends Start
LoadSubscriptionsTeams(ok) ==
  /\ main = "load"
  /\ mu = "free"
  /\ bulk' = Listing(ok)
  /\ IF ok
       THEN /\ loadLeft' = TeamList
            /\ main' = "range"
            /\ mu' = "main"
       ELSE /\ loadLeft' = loadLeft
            /\ main' = "failed"
            /\ mu' = mu
  /\ UNCHANGED <<subscriptions, stats, smu, hs, storeLeft, mon, stopCh,
                 confQ, workQ, persisted, incs, last, store, nTicks, nEvents, nChanges,
                 rep, nReplies>>

\* what one pass of the loop of loadSubscriptions on team t leaves in bulk
Ranged(t, ok) ==
  [bulk EXCEPT !.ok = IF ok THEN @ \cup {t} ELSE @,
               !.failed = IF ok THEN @ ELSE @ \cup {t}]

\* LoadSubscriptionsOne with a return of the error in place of the continue of line 62
LoadSubscriptionsOne_ReturnError(ok) ==
  /\ main = "range"
  /\ loadLeft # << >>
  /\ bulk' = Ranged(Head(loadLeft), ok)
  /\ IF ok
       THEN /\ loadLeft' = Tail(loadLeft)
            /\ subscriptions' = MapPut(subscriptions, Head(loadLeft), NewSub(Head(loadLeft)))
            /\ UNCHANGED <<mu, main>>
       ELSE /\ loadLeft' = << >>
            /\ subscriptions' = subscriptions
            /\ mu' = "free"
            /\ main' = "failed"
  /\ UNCHANGED <<stats, smu, hs, storeLeft, mon, stopCh,
                 confQ, workQ, persisted, incs, last, store, nTicks, nEvents, nChanges,
                 rep, nReplies>>

\* lines 58-67: one pass of the loop, b.r.ChannelsAndGroups under the lock
LoadSubscriptionsOne(ok) ==
  /\ main = "range"
  /\ loadLeft # << >>
  /\ loadLeft' = Tail(loadLeft)
  /\ bulk' = Ranged(Head(loadLeft), ok)
  /\ subscriptions' = IF ok THEN MapPut(subscriptions, Head(loadLeft), NewSub(Head(loadLeft)))
                            ELSE subscriptions
  /\ UNCHANGED <<stats, mu, smu, hs, main, storeLeft, mon, stopCh,
                 confQ, workQ, persisted, incs, last, store, nTicks, nEvents, nChanges,
                 rep, nReplies>>

\* line 68 and the deferred unlock, then lines 198-204: the two listeners are
\* started and Start enters its loop
LoadSubscriptionsDone ==
  /\ main = "range"
  /\ loadLeft = << >>
  /\ mu' = "free"
  /\ mon' = "run"
  /\ rep' = "run"
  /\ bulk' = [NoBulk EXCEPT !.state = "done"]
  /\ main' = "loop"
  /\ UNCHANGED <<subscriptions, stats, smu, hs, loadLeft, storeLeft, stopCh,
                 confQ, workQ, persisted, incs, last, store, nTicks, nEvents, nChanges,
                 nReplies>>

\* Tick with a heartbeat error ending Start as the error of line 194 does
Tick_HeartbeatFatal(ok) ==
  /\ main = "loop"
  /\ nTicks < MaxTicks
  /\ nTicks' = nTicks + 1
  /\ smu = "free"
  /\ smu' = IF ok THEN "main" ELSE smu
  /\ storeLeft' = IF ok THEN DOMAIN stats ELSE storeLeft
  /\ store' = [keys |-> DOMAIN stats, tried |-> {}, failed |-> {}, hb |-> ok]
  /\ main' = IF ok THEN "storing" ELSE "failed"
  /\ UNCHANGED <<subscriptions, stats, mu, hs, loadLeft, mon, stopCh,
                 confQ, workQ, persisted, incs, last, nEvents, nChanges,
                 rep, nReplies, bulk>>

\* lines 209-214 and 178-180: a tick, the heartbeat whose error is only logged,
\* then storeStatistics: b.smu.Lock() and the start of the range over b.stats
Tick(ok) ==
  /\ main = "loop"
  /\ nTicks < MaxTicks
  /\ nTicks' = nTicks + 1
  /\ smu = "free"
  /\ smu' = "main"
  /\ storeLeft' = DOMAIN stats
  /\ store' = [keys |-> DOMAIN stats, tried |-> {}, failed |-> {}, hb |-> ok]
  /\ main' = "storing"
  /\ UNCHANGED <<subscriptions, stats, mu, hs, loadLeft, mon, stopCh,
                 confQ, workQ, persisted, incs, last, nEvents, nChanges,
                 rep, nReplies, bulk>>

\* domain.Statistics.Reset
Reset(v) == [v EXCEPT !.Messages = 0]

\* Stored with the Reset of line 183 outside the test of line 182
Stored_ResetAlways(v, ok) == Reset(v)

\* lines 181-183: the entry after b.r.UpdateStatistics(v) returned nil or an error
Stored(v, ok) == IF ok THEN Reset(v) ELSE v

\* lines 180-187: the keys the range still visits after the entry t
StoreRest(left, t, ok) == IF ok THEN left \ {t} ELSE {}

\* lines 180-188: one pass of the loop, on any entry not yet visited (the order
\* of a range over a map is not specified); an error ends the call
StoreStatisticsOne(t, ok) ==
  /\ main = "storing"
  /\ t \in storeLeft
  /\ stats' = [stats EXCEPT ![t] = Stored(stats[t], ok)]
  /\ persisted' = IF ok THEN [persisted EXCEPT ![t] = @ + stats[t].Messages] ELSE persisted
  /\ store' = [store EXCEPT !.tried = @ \cup {t},
                            !.failed = IF ok THEN @ ELSE @ \cup {t}]
  /\ storeLeft' = StoreRest(storeLeft, t, ok)
  /\ IF StoreRest(storeLeft, t, ok) = {}
       THEN /\ smu' = "free"
            /\ main' = "loop"
       ELSE UNCHANGED <<smu, main>>
  /\ UNCHANGED <<subscriptions, mu, hs, loadLeft, mon, stopCh,
                 confQ, workQ, incs, last, nTicks, nEvents, nChanges,
                 rep, nReplies, bulk>>

\* lines 178-189 when b.stats is empty: the range visits nothing
StoreStatisticsNone ==
  /\ main = "storing"
  /\ storeLeft = {}
  /\ smu' = "free"
  /\ main' = "loop"
  /\ UNCHANGED <<subscriptions, stats, mu, hs, loadLeft, storeLeft, mon, stopCh,
                 confQ, workQ, persisted, incs, last, store, nTicks, nEvents, nChanges,
                 rep, nReplies, bulk>>

\* Stop, lines 220-222: a send on the channel of capacity 1
Stop ==
  /\ stopCh = 0
  /\ stopCh' = 1
  /\ UNCHANGED <<subscriptions, stats, mu, smu, hs, main, loadLeft, storeLeft, mon,
                 confQ, workQ, persisted, incs, last, store, nTicks, nEvents, nChanges,
                 rep, nReplies, bulk>>

\* StartStopped with the loop going on after the receive of line 207
StartStopped_NoReturn ==
  /\ main = "loop"
  /\ stopCh = 1
  /\ stopCh' = 0
  /\ UNCHANGED <<subscriptions, stats, mu, smu, hs, main, loadLeft, storeLeft, mon,
                 confQ, workQ, persisted, incs, last, store, nTicks, nEvents, nChanges,
                 rep, nReplies, bulk>>

\* lines 207-208: the loop receives the stop signal and Start returns nil
StartStopped ==
  /\ main = "loop"
  /\ stopCh = 1
  /\ stopCh' = 0
  /\ main' = "returned"
  /\ UNCHANGED <<subscriptions, stats, mu, smu, hs, loadLeft, storeLeft, mon,
                 confQ, workQ, persisted, incs, last, store, nTicks, nEvents, nChanges,
                 rep, nReplies, bulk>>

(***************************************************************************)
(* monitorChanges and subscriptionChanged                                  *)
(***************************************************************************)
\* the configuration of a team was edited: its external id is put on the queue
ConfChanged(t) ==
  /\ nChanges < MaxChanges
  /\ nChanges' = nChanges + 1
  /\ confQ' = Append(confQ, t)
  /\ UNCHANGED <<subscriptions, stats, mu, smu, hs, main, loadLeft, storeLeft, mon, stopCh,
                 workQ, persisted, incs, last, store, nTicks, nEvents,
                 rep, nReplies, bulk>>

\* the loads of team that have read the repository and not yet installed their entry
Reading(h, team) == hs[h].team = team /\ hs[h].pc \in {"loadCfg", "install"}

\* lines 234-240 and 225-230: PopConf returns a team and its entry is deleted
\* under the write lock
MonitorChange ==
  /\ mon = "run"
  /\ confQ # << >>
  /\ mu = "free"
  /\ confQ' = Tail(confQ)
  /\ subscriptions' = MapDelete(subscriptions, Head(confQ))
  /\ hs' = [h \in Handlers |->
              IF Reading(h, Head(confQ)) THEN [hs[h] EXCEPT !.sub.pre = TRUE] ELSE hs[h]]
  /\ UNCHANGED <<stats, mu, smu, main, loadLeft, storeLeft, mon, stopCh,
                 workQ, persisted, incs, last, store, nTicks, nEvents, nChanges,
                 rep, nReplies, bulk>>

\* lines 234-238: PopConf returns an error or an empty team
MonitorQuit ==
  /\ mon = "run"
  /\ mon' = "quit"
  /\ UNCHANGED <<subscriptions, stats, mu, smu, hs, main, loadLeft, storeLeft, stopCh,
                 confQ, workQ, persisted, incs, last, store, nTicks, nEvents, nChanges,
                 rep, nReplies, bulk>>

(***************************************************************************)
(* monitorReplies                                                          *)
(***************************************************************************)
\* lines 245-251: PopWorkReply returns a reply, which handleReply takes
MonitorReply ==
  /\ rep = "run"
  /\ nReplies < MaxReplies
  /\ nReplies' = nReplies + 1
  /\ UNCHANGED <<subscriptions, stats, mu, smu, hs, main, loadLeft, storeLeft, mon, stopCh,
                 confQ, workQ, persisted, incs, last, store, nTicks, nEvents, nChanges,
                 rep, bulk>>

\* lines 245-249: PopWorkReply returns an error or no reply
MonitorRepliesQuit ==
  /\ rep = "run"
  /\ rep' = "quit"
  /\ UNCHANGED <<subscriptions, stats, mu, smu, hs, main, loadLeft, storeLeft, mon, stopCh,
                 confQ, workQ, persisted, incs, last, store, nTicks, nEvents, nChanges,
                 nReplies, bulk>>

(***************************************************************************)
(* Specification                                                           *)
(***************************************************************************)
Next ==
  \/ \E h \in Handlers, team \in Teams \cup {NoTeam} : HandleMessageBegin(h, team)
  \/ \E h \in Handlers, ok \in BOOLEAN : LoadTeam(h, ok)
  \/ \E h \in Handlers, ok \in BOOLEAN : LoadCfg(h, ok)
  \/ \E h \in Handlers : Install(h)
  \/ \E h \in Handlers, ev \in CoreEvents, pushOk \in BOOLEAN : HandleEvent(h, ev, pushOk)
  \/ \E ok \in BOOLEAN : StartHeartbeat(ok)
  \/ \E ok \in BOOLEAN : LoadSubscriptionsTeams(ok)
  \/ \E ok \in BOOLEAN : LoadSubscriptionsOne(ok)
  \/ LoadSubscriptionsDone
  \/ \E ok \in BOOLEAN : Tick(ok)
  \/ \E t \in Teams, ok \in BOOLEAN : StoreStatisticsOne(t, ok)
  \/ StoreStatisticsNone
  \/ Stop
  \/ StartStopped
  \/ \E t \in Teams : ConfChanged(t)
  \/ MonitorChange
  \/ MonitorQuit
  \/ MonitorReply
  \/ MonitorRepliesQuit

\* every task of the bot, the ingress delivering one event of each kind
Spec == Init /\ [][Next]_vars

\* the tasks that touch the subscription cache: HandleMessage, Start's bulk load
\* and the change listener
NextCache ==
  \/ \E h \in Handlers, team \in Teams \cup {NoTeam} : HandleMessageBegin(h, team)
  \/ \E h \in Handlers, ok \in BOOLEAN : LoadTeam(h, ok)
  \/ \E h \in Handlers, ok \in BOOLEAN : LoadCfg(h, ok)
  \/ \E h \in Handlers : Install(h)
  \/ \E h \in Handlers, ev \in CoreEvents, pushOk \in BOOLEAN : HandleEvent(h, ev, pushOk)
  \/ \E ok \in BOOLEAN : StartHeartbeat(ok)
  \/ \E ok \in BOOLEAN : LoadSubscriptionsTeams(ok)
  \/ \E ok \in BOOLEAN : LoadSubscriptionsOne(ok)
  \/ LoadSubscriptionsDone
  \/ \E t \in Teams : ConfChanged(t)
  \/ MonitorChange
  \/ MonitorQuit

SpecCache == Init /\ [][NextCache]_vars

\* the tasks that touch the statistics: HandleMessage and Start's ticker loop
NextStats ==
  \/ \E h \in Handlers, team \in Teams \cup {NoTeam} : HandleMessageBegin(h, team)
  \/ \E h \in Handlers, ok \in BOOLEAN : LoadTeam(h, ok)
  \/ \E h \in Handlers, ok \in BOOLEAN : LoadCfg(h, ok)
  \/ \E h \in Handlers : Install(h)
  \/ \E h \in Handlers, ev \in CoreEvents, pushOk \in BOOLEAN : HandleEvent(h, ev, pushOk)
  \/ \E ok \in BOOLEAN : StartHeartbeat(ok)
  \/ \E ok \in BOOLEAN : LoadSubscriptionsTeams(ok)
  \/ \E ok \in BOOLEAN : LoadSubscriptionsOne(ok)
  \/ LoadSubscriptionsDone
  \/ \E ok \in BOOLEAN : Tick(ok)
  \/ \E t \in Teams, ok \in BOOLEAN : StoreStatisticsOne(t, ok)
  \/ StoreStatisticsNone
  \/ Stop
  \/ StartStopped

SpecStats == Init /\ [][NextStats]_vars

\* one caller of HandleMessage at a time, the ingress delivering every event
NextEvents ==
  \/ \E team \in Teams \cup {NoTeam} : HandleMessageBegin("h1", team)
  \/ \E ok \in BOOLEAN : LoadTeam("h1", ok)
  \/ \E ok \in BOOLEAN : LoadCfg("h1", ok)
  \/ Install("h1")
  \/ \E ev \in Events, pushOk \in BOOLEAN : HandleEvent("h1", ev, pushOk)

SpecEvents == Init /\ [][NextEvents]_vars

\* Start with its loop and the two listeners it starts, and Stop, with no caller
\* of HandleMessage: b.stats stays empty
NextLoops ==
  \/ \E ok \in BOOLEAN : StartHeartbeat(ok)
  \/ \E ok \in BOOLEAN : LoadSubscriptionsTeams(ok)
  \/ \E ok \in BOOLEAN : LoadSubscriptionsOne(ok)
  \/ LoadSubscriptionsDone
  \/ \E ok \in BOOLEAN : Tick(ok)
  \/ StoreStatisticsNone
  \/ Stop
  \/ StartStopped
  \/ \E t \in Teams : ConfChanged(t)
  \/ MonitorChange
  \/ MonitorQuit
  \/ MonitorReply
  \/ MonitorRepliesQuit

SpecLoops == Init /\ [][NextLoops]_vars

\* the scheduling of Start's loop: a storeStatistics call that has the lock and
\* nothing to store returns; the select of line 206 chooses among its ready cases
\* at random, so a signal that waits in b.stop each time the loop comes back to the
\* select is received
LoopFairness ==
  /\ WF_vars(StoreStatisticsNone)
  /\ SF_vars(StartStopped)

SpecLoopsFair == Init /\ [][NextLoops]_vars /\ LoopFairness

(***************************************************************************)
(* Vocabulary of the properties                                            *)
(***************************************************************************)
EventList == {e : e \in Events}

\* the events whose channel, subtype and text make them a command to the bot
CommandEvents == {ev \in EventList : IsInternalCommand(ev)}

\* the events that are no command and are a file share or carry evidence
TriggerEvents ==
  {ev \in EventList :
     /\ ~IsInternalCommand(ev)
     /\ \/ ev.subtype = "file_share"
        \/ ev.subtype = "" /\ HasEvidence(ev.text)}

\* the sender of ev is not the bot user of team
NotBot(team, ev) == team \in Teams /\ ev.user # BotUserID(team)

\* the classification of an event of team: ignore, command, trigger or ordinary
Decision(team, ev) ==
  IF ev.type # "message" \/ ~NotBot(team, ev) THEN "ignore"
  ELSE IF ev \in CommandEvents THEN "command"
  ELSE IF ev \in TriggerEvents THEN "trigger"
  ELSE "ordinary"

\* the handler of the command form that the lower-cased text has
HandlerOf(text) ==
  LET ltext == ToLower(text)
  IN  IF HasPrefix(ltext, pJoin) THEN "joinChannels"
      ELSE IF HasPrefix(ltext, pVerbose) THEN "handleVerbose"
      ELSE IF ltext = txtConfig THEN "handleConfig"
      ELSE IF HasPrefix(ltext, pVt) THEN "handleVT"
      ELSE IF HasPrefix(ltext, pXfe) THEN "handleXFE"
      ELSE "showHelp"

\* the step is task h's HandleEvent: the only step from "event" to "idle"
EventStep(h) == hs[h].pc = "event" /\ hs'[h].pc = "idle"

\* Messages of team in the statistics map st, 0 without an entry
Counter(st, team) == IF team \in DOMAIN st THEN st[team].Messages ELSE 0

\* the entries of the map m other than team's are the same in n
SameElsewhere(m, n, team) ==
  /\ DOMAIN m \ {team} = DOMAIN n \ {team}
  /\ \A t \in DOMAIN m \ {team} : m[t] = n[t]

(***************************************************************************)
(* C1                                                                      *)
(***************************************************************************)
\* C1: a subscription that HandleMessage finds in the cache was never read from
\* the repository before an invalidation of its team that has completed: after
\* subscriptionChanged(team), the next lookup of team misses and loads afresh.
C1_HitIsFresh ==
  \A h \in Handlers : (hs[h].pc = "event" /\ hs[h].hit) => ~hs[h].sub.pre

(***************************************************************************)
(* C2                                                                      *)
(***************************************************************************)
\* C2: for every team, the Messages stored by the successful UpdateStatistics
\* calls plus the Messages of its entry in b.stats equal the number of Messages++
\* made for it, in every state of every interleaving of HandleMessage and
\* storeStatistics: an entry is reset only with a successful store of its value,
\* and a failed store leaves it for the next one.
C2_CountConserved ==
  \A t \in Teams : persisted[t] + Counter(stats, t) = incs[t]

\* a first count of a team was stored, the team was counted again and the store
\* of the second count failed: the entry still holds it
C2_Witness ==
  \E t \in Teams :
    /\ main = "loop"
    /\ t \in store.failed
    /\ persisted[t] > 0
    /\ Counter(stats, t) > 0

(***************************************************************************)
(* C3                                                                      *)
(***************************************************************************)
\* C3: every storeStatistics call that has ended called UpdateStatistics on every
\* entry of b.stats, whether or not the call failed on another entry.
C3_StoreTriesAll ==
  main # "storing" => store.tried = store.keys

(***************************************************************************)
(* C4                                                                      *)
(***************************************************************************)
\* C4: a message of a non-bot sender in a direct-message channel with subtype ""
\* whose lower-cased text has a command form is handled by exactly one call, of
\* the handler of that form, whatever the case of its letters.
C4_CommandHandledOnce ==
  (/\ last.outcome \in {"ignored", "pushed", "pushfail", "counted"}
   /\ Decision(last.team, last.ev) = "command")
    => last.calls = <<HandlerOf(last.ev.text)>>

(***************************************************************************)
(* C5                                                                      *)
(***************************************************************************)
\* C5: handling a message in a direct-message channel with subtype "" and a text
\* of a command form makes no PushWork call and leaves the work queue as it was,
\* also when the text holds a link, an IPv4 address or a digest.
C5_CommandNeverPushed ==
  [][\A h \in Handlers :
       (EventStep(h) /\ last'.ev.type = "message" /\ last'.ev \in CommandEvents)
         => (last'.pushes = << >> /\ workQ' = workQ)]_vars

\* a command with a 32-hex digest in its text was handled and not pushed
C5_Witness ==
  /\ last.outcome = "counted"
  /\ last.ev \in CommandEvents
  /\ last.ev.text = txtVerboseMd5
  /\ md5RegMatch(last.ev.text)
  /\ last.calls = <<"handleVerbose">>

(***************************************************************************)
(* C6                                                                      *)
(***************************************************************************)
\* C6: a command handler is called only for a message in a direct-message channel
\* with subtype "" and a text of a command form.
C6_HandlerOnlyForCommand ==
  last.calls # << >> => last.ev \in CommandEvents

(***************************************************************************)
(* C7                                                                      *)
(***************************************************************************)
\* C7: handling an event classified ignore, trigger or command leaves every
\* entry of b.stats unchanged.
C7_OnlyOrdinaryCounted ==
  [][\A h \in Handlers :
       (EventStep(h) /\ Decision(hs[h].team, last'.ev) # "ordinary")
         => stats' = stats]_vars

(***************************************************************************)
(* C8                                                                      *)
(***************************************************************************)
\* C8: handling an ordinary event adds exactly 1 to the Messages of its team, the
\* entry being created at zero first when missing, and leaves the entries of the
\* other teams, the work queue and the subscriptions unchanged.
C8_OrdinaryCountsOne ==
  [][\A h \in Handlers :
       (EventStep(h) /\ Decision(hs[h].team, last'.ev) = "ordinary")
         => /\ hs[h].team \in DOMAIN stats'
            /\ stats'[hs[h].team].Messages = Counter(stats, hs[h].team) + 1
            /\ SameElsewhere(stats, stats', hs[h].team)
            /\ workQ' = workQ
            /\ subscriptions' = subscriptions]_vars

\* an ordinary event created the entry of its team beside the other team's
C8_Witness ==
  /\ last.outcome = "counted"
  /\ Decision(last.team, last.ev) = "ordinary"
  /\ DOMAIN stats = Teams
  /\ \A t \in Teams : stats[t].Messages = 1

(***************************************************************************)
(* C9                                                                      *)
(***************************************************************************)
\* the work request of an event of team: reply queue and context
IsRequestOf(req, team, ev) ==
  /\ req.ReplyQueue = Hostname
  /\ req.Context = [Team |-> team, User |-> ev.user, Type |-> ev.type,
                    Channel |-> ev.channel, OriginalUser |-> ev.user]

\* C9: handling a message of a non-bot sender outside a direct-message channel,
\* with subtype "" and a text holding a link, an IPv4 address or a digest, makes
\* exactly one PushWork call, with the host name as reply queue and the event's
\* team, channel, type and sender (as User and OriginalUser) as context; the
\* queue gains that request when the call succeeds and nothing otherwise, and
\* b.stats is unchanged.
C9_TriggerPushedOnce ==
  [][\A h \in Handlers :
       (/\ EventStep(h)
        /\ last'.ev.type = "message" /\ NotBot(hs[h].team, last'.ev)
        /\ ~IsDirect(last'.ev.channel) /\ last'.ev.subtype = ""
        /\ last'.ev \in TriggerEvents)
         => /\ Len(last'.pushes) = 1
            /\ IsRequestOf(last'.pushes[1], hs[h].team, last'.ev)
            /\ workQ' \in {workQ, Append(workQ, last'.pushes[1])}
            /\ last'.outcome = "pushed" => workQ' = Append(workQ, last'.pushes[1])
            /\ stats' = stats]_vars

\* a message with a 40-hex digest in a public channel was pushed
C9_Witness ==
  /\ last.outcome = "pushed"
  /\ last.ev.text = txtSha1 /\ sha1RegMatch(last.ev.text)
  /\ last.ev.channel = chanPublic /\ last.ev.subtype = ""
  /\ workQ # << >>
  /\ workQ[Len(workQ)] = last.pushes[1]

(***************************************************************************)
(* C10                                                                     *)
(***************************************************************************)
\* C10: handling a message of a non-bot sender with subtype "file_share" makes
\* exactly one PushWork call, whatever its text and its channel, calls no command
\* handler and leaves b.stats unchanged.
C10_FileSharePushed ==
  [][\A h \in Handlers :
       (/\ EventStep(h)
        /\ last'.ev.type = "message" /\ NotBot(hs[h].team, last'.ev)
        /\ last'.ev.subtype = "file_share")
         => /\ Len(last'.pushes) = 1
            /\ workQ' \in {workQ, Append(workQ, last'.pushes[1])}
            /\ last'.outcome = "pushed" => workQ' = Append(workQ, last'.pushes[1])
            /\ last'.calls = << >>
            /\ stats' = stats]_vars

\* a file share with a command text in a direct-message channel was pushed
C10_Witness ==
  /\ last.outcome = "pushed"
  /\ last.ev.subtype = "file_share"
  /\ last.ev.text = txtJoin
  /\ last.ev.channel = chanDM
  /\ workQ # << >>


(***************************************************************************)
(* C11                                                                     *)
(***************************************************************************)
\* C11: a HandleMessage call on an event that is no message, or on a message that
\* the bot user of the team sent, calls PushWork not once, calls no command
\* handler, and leaves the queue and every statistics counter as they were.
C11_IgnoredHasNoEffect ==
  [][\A h \in Handlers :
       (EventStep(h) /\ Decision(hs[h].team, last'.ev) = "ignore")
         => /\ last'.pushes = << >>
            /\ last'.calls = << >>
            /\ workQ' = workQ
            /\ stats' = stats
            /\ incs' = incs
            /\ persisted' = persisted]_vars

\* a message of the bot user that carries evidence was ignored
C11_Witness ==
  /\ last.outcome = "ignored"
  /\ last.ev.type = "message"
  /\ last.ev.user = BotUserID(last.team)
  /\ last.ev \in TriggerEvents
  /\ workQ = << >>

(***************************************************************************)
(* C12                                                                     *)
(***************************************************************************)
\* the program's state: everything but the history of calls
State ==
  <<subscriptions, stats, mu, smu, hs, main, loadLeft, storeLeft, mon, stopCh,
    confQ, workQ, persisted, incs, rep>>

\* C12: a HandleMessage call either goes on to the cache lookup for a team that its
\* message names, or, the team identifier missing, ends at once and leaves the
\* whole state unchanged: no lookup, no load, no push, no handler, no counter.
C12_NoTeamNoEffect ==
  [][nEvents' # nEvents =>
       IF \E h \in Handlers : hs'[h] # hs[h]
         THEN \A h \in Handlers : hs'[h] # hs[h] => hs'[h].team \in Teams
         ELSE /\ last' = Ended(NoTeam, NoEvent, "noteam", << >>, << >>)
              /\ State' = State]_vars

\* the only call so far had no team, and the bulk load holds the cache lock
C12_Witness ==
  /\ last.outcome = "noteam"
  /\ nEvents = 1
  /\ mu = "main"
  /\ \A h \in Handlers : hs[h] = Idle

(***************************************************************************)
(* C13                                                                     *)
(***************************************************************************)
\* the step is the return of task h's loadSubscription with an error
LoadFailStep(h) == hs[h].pc \in {"loadTeam", "loadCfg"} /\ hs'[h].pc = "idle"

\* the step is the begin of a HandleMessage call of task h that misses the cache
MissStep(h) ==
  /\ hs[h].pc = "idle"
  /\ hs'[h].pc # "idle"
  /\ hs'[h].team \notin DOMAIN subscriptions

\* C13: when the fetch of the team or of its configuration fails, the call ends
\* there: the map is unchanged and has no entry for the team, nothing is pushed,
\* no handler runs, no counter changes; a later call for a team that has no
\* entry reads the repository again.
C13_LoadFailureDrops ==
  [][\A h \in Handlers :
       /\ LoadFailStep(h) =>
            /\ subscriptions' = subscriptions
            /\ hs[h].team \notin DOMAIN subscriptions'
            /\ hs'[h] = Idle
            /\ last' = Ended(hs[h].team, NoEvent, "loadfail", << >>, << >>)
            /\ workQ' = workQ
            /\ stats' = stats
            /\ incs' = incs
       /\ MissStep(h) => hs'[h].pc = "loadTeam"]_vars

\* after a failed load of a team, the next call for it is reading the repository
C13_Witness ==
  /\ last.outcome = "loadfail"
  /\ hs["h1"].pc = "loadTeam"
  /\ hs["h1"].team = last.team
  /\ last.team \notin DOMAIN subscriptions

(***************************************************************************)
(* C14                                                                     *)
(***************************************************************************)
\* C14: a HandleMessage call calls PushWork at most once and adds at most one
\* request to the queue; when PushWork fails the one call is all: the queue, the
\* statistics and the subscription map are as they were.
C14_PushFailureDrops ==
  [][\A h \in Handlers :
       EventStep(h) =>
         /\ Len(last'.pushes) <= 1
         /\ Len(workQ') <= Len(workQ) + 1
         /\ last'.outcome = "pushfail" =>
              /\ Len(last'.pushes) = 1
              /\ workQ' = workQ
              /\ stats' = stats
              /\ incs' = incs
              /\ subscriptions' = subscriptions]_vars

\* the push of a trigger event failed and the queue is empty
C14_Witness ==
  /\ last.outcome = "pushfail"
  /\ last.ev \in TriggerEvents
  /\ Len(last.pushes) = 1
  /\ workQ = << >>


(***************************************************************************)
(* C15                                                                     *)
(***************************************************************************)
\* the teams that b.r.Teams() lists
Listed == {TeamList[i] : i \in DOMAIN TeamList}

\* loadSubscriptions has ranged over every team and still holds the lock
BulkRanged == main = "range" /\ loadLeft = << >>

\* C15 as stated: when loadSubscriptions has ranged over the teams, the map has an
\* entry for every team whose configuration was fetched and none for a team whose
\* fetch failed.
C15_FailedHaveNoEntry ==
  BulkRanged =>
    /\ \A t \in bulk.ok : t \in DOMAIN subscriptions
    /\ \A t \in bulk.failed : t \notin DOMAIN subscriptions

\* C15: loadSubscriptions, once b.r.Teams() has listed the teams, ends in success
\* whatever the fetches of the configurations returned; the map then has the entry
\* read from the repository under the external id of every listed team whose fetch
\* succeeded, and for a team whose fetch failed it has an entry only if it had one
\* before the call.
C15_BulkLoadSkipsFailed ==
  [][(main = "range" /\ main' # "range") =>
       /\ main' = "loop"
       /\ bulk.ok \cup bulk.failed = Listed
       /\ bulk.ok \cap bulk.failed = {}
       /\ \A t \in bulk.ok : t \in DOMAIN subscriptions' /\ subscriptions'[t] = NewSub(t)
       /\ \A t \in bulk.failed : (t \in DOMAIN subscriptions') = (t \in bulk.before)]_vars

\* the load has ranged over the teams, one fetched and in the map, the other
\* failed and absent
C15_Witness ==
  /\ BulkRanged
  /\ bulk.ok # {}
  /\ bulk.failed # {}
  /\ bulk.ok \subseteq DOMAIN subscriptions
  /\ bulk.failed \cap DOMAIN subscriptions = {}


(***************************************************************************)
(* C17                                                                     *)
(***************************************************************************)
\* Start is about to call, or is in, b.r.ChannelsAndGroups of loadSubscriptions
InConfigurationFetch == main = "range" /\ loadLeft # << >>

\* Start is about to call, or is in, b.r.UpdateStatistics of storeStatistics
InUpdateStatistics == main = "storing" /\ storeLeft # {}

\* C17: no task holds the subscription-cache lock or the statistics lock while a
\* repository or queue call of that task is in progress.
C17_NoLockAcrossIO ==
  /\ InConfigurationFetch => mu # "main"
  /\ InUpdateStatistics => smu # "main"
  /\ \A h \in Handlers : hs[h].pc \in {"loadTeam", "loadCfg"} => mu # h /\ smu # h

(***************************************************************************)
(* C18                                                                     *)
(***************************************************************************)
\* Start is in the loop of lines 205-216
InLoop == main \in {"loop", "storing"}

\* C18: every tick, whatever its heartbeat returned, goes on to storeStatistics on
\* the entries b.stats then has; storeStatistics comes back to the loop; and the
\* loop is left only by the receive of the stop signal, with Start returning nil.
C18_HeartbeatFailureNotFatal ==
  [][/\ nTicks' # nTicks =>
          /\ main' = "storing"
          /\ smu' = "main"
          /\ storeLeft' = DOMAIN stats
     /\ (main = "storing" /\ main' # "storing") => main' = "loop"
     /\ (InLoop /\ ~InLoop') =>
          /\ main = "loop"
          /\ main' = "returned"
          /\ stopCh = 1
          /\ stopCh' = 0]_vars

\* after a tick whose heartbeat failed, storeStatistics stored an entry and Start
\* is back in its loop
C18_Witness ==
  /\ ~store.hb
  /\ store.tried # {}
  /\ store.failed = {}
  /\ main = "loop"
  /\ nTicks = 1

(***************************************************************************)
(* C20                                                                     *)
(***************************************************************************)
\* C20: mu is held only by Start while it is in loadSubscriptions, smu only by
\* Start while it is in storeStatistics, so no task holds both; a task that is
\* not in one of the two holds no lock, whichever way it left, the error returns
\* of lines 55-57 and 186 included.
C20_LocksDisjointAndReleased ==
  /\ mu # "free" => mu = "main" /\ main = "range"
  /\ smu # "free" => smu = "main" /\ main = "storing"
  /\ ~(mu # "free" /\ mu = smu)

\* b.r.Teams() failed in loadSubscriptions, which took mu, and Start returned the
\* error: both locks are free
C20_Witness ==
  /\ bulk.state = "error"
  /\ main = "failed"
  /\ mu = "free"
  /\ smu = "free"


(***************************************************************************)
(* C16                                                                     *)
(***************************************************************************)
\* C16: a stop signal that waits in b.stop while Start is in its loop leads to
\* Start having returned nil; once it has returned there is no tick, no heartbeat
\* and no storeStatistics call any more; the send and the receive of the signal
\* leave the two listeners where they are, and a listener ends only by a step of
\* its own, the pop that returns an error or nothing.
C16_StopEndsStart ==
  /\ (stopCh = 1 /\ InLoop) ~> (main = "returned")
  /\ [][main = "returned" =>
          /\ main' = "returned"
          /\ nTicks' = nTicks
          /\ store' = store
          /\ persisted' = persisted
          /\ smu' = smu]_vars
  /\ [][(stopCh' # stopCh \/ (InLoop /\ ~InLoop')) => (mon' = mon /\ rep' = rep)]_vars
  /\ [][/\ (mon = "run" /\ mon' # "run") => (mon' = "quit" /\ main' = main /\ stopCh' = stopCh)
        /\ (rep = "run" /\ rep' # "run") => (rep' = "quit" /\ main' = main /\ stopCh' = stopCh)]_vars

\* Start has returned after a tick and the two listeners are still running
C16_Witness ==
  /\ main = "returned"
  /\ stopCh = 0
  /\ nTicks > 0
  /\ mon = "run"
  /\ rep = "run"

(***************************************************************************)
(* C19                                                                     *)
(***************************************************************************)
\* notifications that monitorChanges has taken from the queue
Invalidations == nChanges - Len(confQ)

\* C19: loadSubscriptions is not begun before the first heartbeat returned; a
\* listener runs, the loop is entered, a tick happens, an invalidation or a reply
\* is processed only after loadSubscriptions has ended in success; when the first
\* heartbeat or b.r.Teams() fails, Start has returned with no listener started and
\* no tick.
C19_StartupOrder ==
  /\ main = "new" => bulk.state = "none"
  /\ (mon # "off" \/ rep # "off" \/ InLoop \/ main = "returned") => bulk.state = "done"
  /\ (nTicks > 0 \/ Invalidations > 0 \/ nReplies > 0) => bulk.state = "done"
  /\ main = "failed" =>
       /\ bulk.state \in {"none", "error"}
       /\ mon = "off"
       /\ rep = "off"
       /\ nTicks = 0
       /\ Invalidations = 0
       /\ nReplies = 0

\* b.r.Teams() failed: Start has returned its error, and a notification waits on
\* the queue with no listener to take it
C19_Witness ==
  /\ main = "failed"
  /\ bulk.state = "error"
  /\ confQ # << >>
  /\ mon = "off"
  /\ rep = "off"

====
